---- MODULE Spec2Model ----
(***************************************************************************)
(* Items API (FastAPI + SQLAlchemy AsyncSession + PostgreSQL).             *)
(*                                                                         *)
(* The model follows one HTTP request from dependency resolution through   *)
(* the handler in main.py, the repository function in storage.py and the   *)
(* unit of work get_db in database.py.  Every awaited storage call is one  *)
(* step; each of them may raise, and the awaiting task may be cancelled at *)
(* it.  The table "items" is the committed state of the database; a        *)
(* session's uncommitted write is private to it until COMMIT.              *)
(*                                                                         *)
(* Strings are run-length encoded: sequences of <<character, count>>.      *)
(* None is Python's None.                                                  *)
(*                                                                         *)
(* Spec serves requests of every kind one after the other; ListSpec one    *)
(* GET /items over stored tables; LifeSpec the process from startup to     *)
(* shutdown; ConcSpec two updates or deletes of one row at a time.         *)
(***************************************************************************)
EXTENDS Integers, Sequences, FiniteSets, TLC

\* ---------------------------------------------------------------- bounds
MaxRequests == 3     \* requests served in one behaviour
MaxRows == 3         \* rows of the tables ListSpec starts from

\* ------------------------------------------------------ program constants
NameMinLen == 1
NameMaxLen == 255
DescMaxLen == 1000
LimitMin == 1
LimitMax == 100
OffsetMin == 0
IdMin == 1

\* ---------------------------------------------------------------- strings
\* A str is kept as its runs <<character, count>>, adjacent runs of different
\* characters; Text(s) is its sequence of characters.
None == <<<<"None", 0>>>>

Lit(t) == [i \in 1..Len(t) |-> <<t[i], 1>>]

Rep(c, n) == IF n = 0 THEN <<>> ELSE <<<<c, n>>>>

RECURSIVE Text(_)
Text(s) ==
    IF s = <<>> THEN <<>>
    ELSE [i \in 1..s[1][2] |-> s[1][1]] \o Text(Tail(s))

\* len(s)
RECURSIVE StrLen(_)
StrLen(s) == IF s = <<>> THEN 0 ELSE s[1][2] + StrLen(Tail(s))

\* str.lower(), character by character
LowerChar(c) == IF c = "A" THEN "a" ELSE IF c = "B" THEN "b" ELSE c

\* faulty variant: no lowering, the comparison is case-sensitive
PyKeepCase(t) == t

PyLower(t) == [i \in 1..Len(t) |-> LowerChar(t[i])]

\* `sub in s` for the characters of two str
PyContains(sub, t) ==
    \E i \in 0..(Len(t) - Len(sub)) : SubSeq(t, i + 1, i + Len(sub)) = sub

\* bool(s.strip()): some character is not whitespace
PyStripTruthy(t) == \E i \in 1..Len(t) : t[i] # " "

Min2(a, b) == IF a < b THEN a ELSE b
Max2(a, b) == IF a > b THEN a ELSE b

\* Python's index normalisation of s[a:b]
PyClamp(i, n) == IF i < 0 THEN Max2(i + n, 0) ELSE Min2(i, n)

PySlice(s, a, b) == SubSeq(s, PyClamp(a, Len(s)) + 1, PyClamp(b, Len(s)))

\* ------------------------------------------------------------------ rows
NoRow == [id |-> 0, name |-> None, description |-> None]

Row(i, n, d) == [id |-> i, name |-> n, description |-> d]

IdsOf(T) == {x.id : x \in T}

RowById(T, i) == IF \E x \in T : x.id = i THEN CHOOSE x \in T : x.id = i ELSE NoRow

\* faulty variant: ORDER BY id DESC
RECURSIVE OrderByIdDesc(_)
OrderByIdDesc(T) ==
    IF T = {} THEN <<>>
    ELSE LET first == CHOOSE x \in T : \A y \in T : x.id >= y.id
         IN  <<first>> \o OrderByIdDesc(T \ {first})

\* SELECT * FROM items ORDER BY id
RECURSIVE OrderById(_)
OrderById(T) ==
    IF T = {} THEN <<>>
    ELSE LET first == CHOOSE x \in T : \A y \in T : x.id <= y.id
         IN  <<first>> \o OrderById(T \ {first})

\* ------------------------------------------------------------ schemas.py
ItemFields == {"name", "description"}

HasField(body, f) == f \in DOMAIN body

NameOk(v) == v # None /\ StrLen(v) >= NameMinLen /\ StrLen(v) <= NameMaxLen

DescOk(v) == v = None \/ StrLen(v) <= DescMaxLen

\* ItemCreate: name required str 1..255, description optional str <= 1000
ItemCreateValid(body) ==
    /\ HasField(body, "name") /\ NameOk(body["name"])
    /\ HasField(body, "description") => DescOk(body["description"])

\* ItemUpdate: both fields Optional[str]; None passes, a str is length-checked
ItemUpdateValid(body) ==
    /\ HasField(body, "name") => (body["name"] = None \/ NameOk(body["name"]))
    /\ HasField(body, "description") => DescOk(body["description"])

\* the parsed ItemCreate object: unset description defaults to None
ItemCreateParse(body) ==
    [name |-> body["name"],
     description |-> IF HasField(body, "description") THEN body["description"] ELSE None]

\* faulty variant: model_dump() without exclude_unset: unset fields dumped as None
ModelDumpAll(body) ==
    [f \in ItemFields |-> IF f \in DOMAIN body THEN body[f] ELSE None]

\* ItemUpdate.model_dump(exclude_unset=True): only the model's fields that were set
ModelDumpExcludeUnset(body) ==
    [f \in (DOMAIN body) \cap ItemFields |-> body[f]]

\* SQLAlchemy setattr of every dumped field on the loaded ORM object
SetAttrs(row, update_data) ==
    [f \in DOMAIN row |-> IF f \in DOMAIN update_data THEN update_data[f] ELSE row[f]]

\* the columns the flush puts in the UPDATE: set attributes whose value differs
\* from the loaded one (no net change, no SQL)
ChangedFields(row, update_data) ==
    {f \in DOMAIN update_data : update_data[f] # row[f]}

\* -------------------------------------------------------- main.py get_items
FilterByName(items, name) ==
    IF name # None /\ PyStripTruthy(Text(name))
    THEN LET name_lower == PyLower(Text(name))
         IN  SelectSeq(items, LAMBDA item : PyContains(name_lower, PyLower(Text(item.name))))
    ELSE items

\* faulty variant: items[offset:limit], the end of the slice not offset
PaginateEndAtLimit(items, offset, limit) == PySlice(items, offset, limit)

Paginate(items, offset, limit) == PySlice(items, offset, offset + limit)

LimitValid(limit) == limit >= LimitMin /\ limit <= LimitMax

OffsetValid(offset) == offset >= OffsetMin

\* faulty variant: Path(ge=0)
ItemIdNonNegative(item_id) == item_id >= 0

ItemIdValid(item_id) == item_id >= IdMin

\* ------------------------------------------------------------- inputs
Unset == <<<<"Unset", 0>>>>

MkBody(n, d, x) ==
    [f \in (IF n = Unset THEN {} ELSE {"name"})
           \cup (IF d = Unset THEN {} ELSE {"description"})
           \cup (IF x = 0 THEN {} ELSE {"id"})
        |-> IF f = "name" THEN n ELSE IF f = "description" THEN d ELSE x]

NameInputs == {Lit(<<"A", "b">>), Rep("b", NameMaxLen), None, Unset}

BadNameInputs == {<<>>, Rep("b", NameMaxLen + 1)}

DescInputs == {Rep("a", DescMaxLen), None, Unset}

BadDescInputs == {Rep("a", DescMaxLen + 1)}

\* a JSON body may carry keys the schema does not declare, such as id
BodyInputs ==
    {MkBody(n, d, 0) : n \in NameInputs, d \in DescInputs}
        \cup {MkBody(n, Unset, 0) : n \in BadNameInputs}
        \cup {MkBody(n, d, 0) : n \in {Lit(<<"A", "b">>), Unset}, d \in BadDescInputs}
        \cup {MkBody(n, Unset, 1) : n \in {Lit(<<"A", "b">>), Unset}}

\* bodies sent along with an invalid path id
FewBodies == {MkBody(Lit(<<"A", "b">>), Unset, 0), MkBody(Unset, Unset, 0)}

ItemIdInputs == (IdMin - 2)..MaxRequests

LimitInputs == {LimitMin - 1, LimitMin, LimitMin + 1, LimitMax, LimitMax + 1}

OffsetInputs == (OffsetMin - 1)..(MaxRows + 1)

FilterInputs ==
    {None, <<>>, Lit(<<" ">>), Lit(<<"A">>), Lit(<<"a", "B">>), Lit(<<"B", " ">>), Lit(<<" ", "a">>)}

\* the filters and offsets the requests of Spec carry
FewFilters == {None, Lit(<<"A">>)}

FewOffsets == (OffsetMin - 1)..(OffsetMin + 1)

\* names of the rows ListSpec starts from
StoredNames == {Lit(<<"a">>), Lit(<<"A", "b">>), Lit(<<"b", " ", "A">>)}

\* ------------------------------------------------------------- state
VARIABLES
    table,      \* committed rows of table items
    seq,        \* last value handed out by the id sequence of items.id
    req,        \* per request slot: the request being served
    started,    \* requests started so far
    issued,     \* history: ids the INSERTs have returned so far, in order
    fresh,      \* history: items returned by committed creates, not updated or deleted since
    deleted,    \* history: ids whose delete request returned True and committed
    life        \* the process: lifespan phase, schema ensured, engine.dispose() calls

vars == <<table, seq, req, started, issued, fresh, deleted, life>>

\* what a step of a request that writes nothing leaves alone
db == <<table, seq, issued, fresh, deleted, life>>

\* module import has built the engine and the app; lifespan has not run yet
Starting == [phase |-> "starting", schema |-> FALSE, disposed |-> 0]

\* lifespan is suspended at its yield after init_db returned
Serving == [phase |-> "serving", schema |-> TRUE, disposed |-> 0]

\* request slots: Spec and ListSpec serve every request in slot 1
Reqs == {1, 2}

NoWrite == [op |-> "none", key |-> 0, row |-> NoRow]

IdleReq ==
    [pc |-> "idle", kind |-> "none", item_id |-> 0, body |-> <<>>,
     limit |-> 0, offset |-> 0, name |-> None,
     loaded |-> NoRow, obj |-> NoRow, write |-> NoWrite, txn |-> FALSE,
     err |-> "none", raised |-> "none",
     item |-> NoRow, all |-> <<>>, items |-> <<>>, page |-> <<>>, status |-> 0, trace |-> <<>>,
     ret |-> FALSE, snap |-> {}, nth |-> 0]

Init ==
    /\ table = {}
    /\ seq = 0
    /\ issued = <<>>
    /\ req = [r \in Reqs |-> IdleReq]
    /\ started = 0
    /\ fresh = {}
    /\ deleted = {}
    /\ life = Starting

Set(r, rec) == req' = [req EXCEPT ![r] = rec]

\* rows a statement of r's transaction sees: the committed table with its own write
\* faulty variant: DELETE FROM items, the WHERE clause forgotten
DeleteAll(T, item_id) == {}

\* DELETE FROM items WHERE id = item_id
DeleteWhere(T, item_id) == {x \in T : x.id # item_id}

Apply(w, T) ==
    IF w.op = "ins" THEN T \cup {w.row}
    ELSE IF w.op = "upd" THEN {x \in T : x.id # w.key} \cup {w.row}
    ELSE IF w.op = "del" THEN DeleteWhere(T, w.key)
    ELSE T

View(r) == Apply(req[r].write, table)

\* row lock: another open transaction holds an uncommitted UPDATE/DELETE of the row
Locked(r, i) ==
    \E q \in Reqs \ {r} : req[q].write.op \in {"upd", "del"} /\ req[q].write.key = i

Ev(q, e) == Append(q.trace, e)

Alone == \A q \in Reqs : req[q].pc = "idle"

\* requests are accepted while lifespan is suspended at its yield; one request
\* at a time, served in slot 1
CanStart(r) == life.phase = "serving" /\ r = 1 /\ Alone /\ started < MaxRequests

\* FastAPI resolves Depends(get_db) (the session exists, no connection yet) and
\* validates the declared parameters; a failed validation is raised through get_db
Enter(kind, fields, valid) ==
    [fields EXCEPT !.kind = kind,
                   !.pc = IF valid THEN "exec" ELSE "rollback",
                   !.err = IF valid THEN "none" ELSE "RequestValidationError",
                   !.snap = table]

\* an exception (not a cancellation) leaves the handler and enters get_db's except
Raise(q, e) == [q EXCEPT !.pc = "rollback", !.err = e]

\* ItemResponse(id=..., name=..., description=...) as each repository function builds it
ListItemResponse(item) == Row(item.id, item.name, item.description)

\* faulty variant: the description is not copied into the response
GetItemResponseNoDesc(item) == Row(item.id, item.name, None)

GetItemResponse(item) == Row(item.id, item.name, item.description)

CreateItemResponse(new_item_db) == Row(new_item_db.id, new_item_db.name, new_item_db.description)

UpdateItemResponse(existing_item_db) ==
    Row(existing_item_db.id, existing_item_db.name, existing_item_db.description)

\* ------------------------------------------------------ GET /health
Health(r) ==
    /\ CanStart(r)
    /\ started' = started + 1
    /\ Set(r, [IdleReq EXCEPT !.kind = "health", !.pc = "done", !.status = 200, !.snap = table])
    /\ UNCHANGED db

\* ------------------------------------------------------ GET /health/db
StartHealthDb(r) ==
    /\ CanStart(r)
    /\ started' = started + 1
    /\ Set(r, Enter("health_db", IdleReq, TRUE))
    /\ UNCHANGED db

HealthDbQuery(r) ==
    LET q == req[r] IN
    /\ q.kind = "health_db" /\ q.pc = "exec"
    /\ Set(r, [q EXCEPT !.pc = "commit", !.ret = TRUE, !.txn = TRUE, !.trace = Ev(q, "call")])
    /\ UNCHANGED <<db, started>>

\* ------------------------------------------------------ GET /items
StartList(r) ==
    \E limit \in LimitInputs, offset \in FewOffsets, name \in FewFilters :
        /\ CanStart(r)
        /\ started' = started + 1
        /\ Set(r, Enter("list",
                        [IdleReq EXCEPT !.limit = limit, !.offset = offset, !.name = name],
                        LimitValid(limit) /\ OffsetValid(offset)))
        /\ UNCHANGED db

\* GET /items with every input of the bounded sets (ListSpec)
StartListAny(r) ==
    \E limit \in LimitInputs, offset \in OffsetInputs, name \in FilterInputs :
        /\ CanStart(r)
        /\ started' = started + 1
        /\ Set(r, Enter("list",
                        [IdleReq EXCEPT !.limit = limit, !.offset = offset, !.name = name],
                        LimitValid(limit) /\ OffsetValid(offset)))
        /\ UNCHANGED db

\* get_all_items, then the handler's filter and slice
ListQuery(r) ==
    LET q == req[r]
        result == OrderById(View(r))
        items == [i \in 1..Len(result) |-> ListItemResponse(result[i])]
    IN
    /\ q.kind = "list" /\ q.pc = "exec"
    /\ Set(r, [q EXCEPT !.pc = "commit", !.ret = TRUE, !.txn = TRUE, !.trace = Ev(q, "call"),
                        !.all = items,
                        !.items = FilterByName(items, q.name),
                        !.page = Paginate(FilterByName(items, q.name), q.offset, q.limit)])
    /\ UNCHANGED <<db, started>>

\* ------------------------------------------------------ GET /items/{item_id}
StartGet(r) ==
    \E item_id \in ItemIdInputs :
        /\ CanStart(r)
        /\ started' = started + 1
        /\ Set(r, Enter("get", [IdleReq EXCEPT !.item_id = item_id], ItemIdValid(item_id)))
        /\ UNCHANGED db

\* get_item_by_id and the handler's 404
GetQuery(r) ==
    LET q == req[r]
        item == RowById(View(r), q.item_id)
        q1 == [q EXCEPT !.txn = TRUE, !.trace = Ev(q, "call"), !.loaded = item]
    IN
    /\ q.kind = "get" /\ q.pc = "exec"
    /\ Set(r, IF item = NoRow THEN Raise(q1, "HTTP404")
              ELSE [q1 EXCEPT !.pc = "commit", !.ret = TRUE, !.item = GetItemResponse(item)])
    /\ UNCHANGED <<db, started>>

\* ------------------------------------------------------ POST /items
StartCreate(r) ==
    \E body \in BodyInputs :
        /\ CanStart(r)
        /\ started' = started + 1
        /\ Set(r, Enter("create", [IdleReq EXCEPT !.body = body], ItemCreateValid(body)))
        /\ UNCHANGED db

\* faulty variant: the id computed from the stored rows, max(id) + 1
NextValMaxPlusOne(s, T) ==
    IF T = {} THEN 1 ELSE 1 + (CHOOSE m \in IdsOf(T) : \A i \in IdsOf(T) : i <= m)

\* the id the INSERT gets: the next value of the sequence behind items.id
\* (autoincrement); the rows stored in T play no part
NextVal(s, T) == s + 1

\* create_item: db.add and flush: INSERT ... RETURNING id
CreateFlush(r) ==
    LET q == req[r]
        item == ItemCreateParse(q.body)
        new_item_db == Row(NextVal(seq, table), item.name, item.description)
    IN
    /\ q.kind = "create" /\ q.pc = "exec"
    /\ seq' = Max2(seq, new_item_db.id)
    /\ issued' = Append(issued, new_item_db.id)
    /\ Set(r, [q EXCEPT !.pc = "refresh", !.txn = TRUE, !.trace = Ev(q, "call"),
                        !.obj = new_item_db,
                        !.write = [op |-> "ins", key |-> new_item_db.id, row |-> new_item_db]])
    /\ UNCHANGED <<table, started, fresh, deleted, life>>

\* create_item: refresh re-reads the inserted row; the handler returns it
CreateRefresh(r) ==
    LET q == req[r]
        row == RowById(View(r), q.obj.id)
    IN
    /\ q.kind = "create" /\ q.pc = "refresh"
    /\ Set(r, [q EXCEPT !.pc = "commit", !.ret = TRUE, !.trace = Ev(q, "call"), !.obj = row,
                        !.item = CreateItemResponse(row)])
    /\ UNCHANGED <<db, started>>

\* ------------------------------------------------------ PUT /items/{item_id}
StartUpdate(r) ==
    \E item_id \in ItemIdInputs, body \in BodyInputs :
        /\ ItemIdValid(item_id) \/ body \in FewBodies
        /\ CanStart(r)
        /\ started' = started + 1
        /\ Set(r, Enter("update", [IdleReq EXCEPT !.item_id = item_id, !.body = body],
                        ItemIdValid(item_id) /\ ItemUpdateValid(body)))
        /\ UNCHANGED db

\* faulty variant: an absent id is inserted instead (upsert)
UpdateUpsert(q) ==
    LET row == Row(q.item_id,
                   IF HasField(q.body, "name") THEN q.body["name"] ELSE <<>>,
                   None)
    IN  [q EXCEPT !.pc = "commit", !.ret = TRUE, !.item = row,
                  !.write = [op |-> "ins", key |-> q.item_id, row |-> row]]

\* update_item returns None for an absent id and the handler raises the 404
UpdateNotFound(q) == Raise(q, "HTTP404")

\* update_item: SELECT by id; None when absent (the handler's 404); otherwise
\* setattr of the dumped fields on the loaded object
UpdateQuery(r) ==
    LET q == req[r]
        existing_item_db == RowById(View(r), q.item_id)
        update_data == ModelDumpExcludeUnset(q.body)
        q1 == [q EXCEPT !.txn = TRUE, !.trace = Ev(q, "call"), !.loaded = existing_item_db]
    IN
    /\ q.kind = "update" /\ q.pc = "exec"
    /\ Set(r, IF existing_item_db = NoRow THEN UpdateNotFound(q1)
              ELSE [q1 EXCEPT !.pc = "flush", !.obj = SetAttrs(existing_item_db, update_data)])
    /\ UNCHANGED <<db, started>>

\* faulty variant: the name column declared nullable
NameNullable(row) == FALSE

\* items.name is NOT NULL: a statement that would store a NULL name is rejected
NotNullViolation(row) == row.name = None

\* update_item: flush.  With no net change nothing is sent.  Otherwise
\* UPDATE items SET <changed> WHERE id = <loaded id>, which waits for the row lock,
\* then acts on the row's latest committed version: no row matched is SQLAlchemy's
\* StaleDataError, a NULL name violates NOT NULL (IntegrityError)
UpdateFlush(r) ==
    LET q == req[r]
        changed == ChangedFields(q.loaded, ModelDumpExcludeUnset(q.body))
        cur == RowById(View(r), q.loaded.id)
        new == [f \in DOMAIN cur |-> IF f \in changed THEN q.obj[f] ELSE cur[f]]
        q1 == [q EXCEPT !.trace = Ev(q, "call")]
    IN
    /\ q.kind = "update" /\ q.pc = "flush"
    /\ IF changed = {}
       THEN Set(r, [q EXCEPT !.pc = "refresh"])
       ELSE /\ ~Locked(r, q.loaded.id)
            /\ Set(r, IF cur = NoRow THEN Raise(q1, "StaleDataError")
                      ELSE IF NotNullViolation(new) THEN Raise(q1, "IntegrityError")
                      ELSE [q1 EXCEPT !.pc = "refresh",
                                      !.write = [op |-> "upd", key |-> q.loaded.id, row |-> new]])
    /\ UNCHANGED <<db, started>>

\* update_item: refresh re-reads the row by primary key (InvalidRequestError when
\* it is gone); the handler returns it
UpdateRefresh(r) ==
    LET q == req[r]
        row == RowById(View(r), q.obj.id)
        q1 == [q EXCEPT !.trace = Ev(q, "call")]
    IN
    /\ q.kind = "update" /\ q.pc = "refresh"
    /\ Set(r, IF row = NoRow THEN Raise(q1, "InvalidRequestError")
              ELSE [q1 EXCEPT !.pc = "commit", !.ret = TRUE, !.obj = row, !.item = UpdateItemResponse(row)])
    /\ UNCHANGED <<db, started>>

\* ------------------------------------------------------ DELETE /items/{item_id}
StartDelete(r) ==
    \E item_id \in ItemIdInputs :
        /\ CanStart(r)
        /\ started' = started + 1
        /\ Set(r, Enter("delete", [IdleReq EXCEPT !.item_id = item_id], ItemIdValid(item_id)))
        /\ UNCHANGED db

\* delete_item: SELECT by id; False when absent (the handler's 404)
DeleteQuery(r) ==
    LET q == req[r]
        item_db == RowById(View(r), q.item_id)
        q1 == [q EXCEPT !.txn = TRUE, !.trace = Ev(q, "call"), !.loaded = item_db]
    IN
    /\ q.kind = "delete" /\ q.pc = "exec"
    /\ Set(r, IF item_db = NoRow THEN Raise(q1, "HTTP404") ELSE [q1 EXCEPT !.pc = "delexec"])
    /\ UNCHANGED <<db, started>>

\* delete_item: DELETE FROM items WHERE id = item_id (waits for the row lock; a
\* row already gone deletes nothing and is no error), flush has nothing to send,
\* return True
DeleteExec(r) ==
    LET q == req[r]
        q1 == [q EXCEPT !.pc = "commit", !.ret = TRUE, !.trace = Ev(q, "call")]
    IN
    /\ q.kind = "delete" /\ q.pc = "delexec"
    /\ ~Locked(r, q.item_id)
    /\ Set(r, IF RowById(View(r), q.item_id) = NoRow THEN q1
              ELSE [q1 EXCEPT !.write = [op |-> "del", key |-> q.item_id, row |-> NoRow]])
    /\ UNCHANGED <<db, started>>

\* ------------------------------------------------------ failures of awaited calls
\* the steps at which r awaits the database
AtStorageCall(r) ==
    LET q == req[r] IN
    \/ q.pc \in {"exec", "refresh", "delexec"}
    \/ q.pc = "flush" /\ ChangedFields(q.loaded, ModelDumpExcludeUnset(q.body)) # {}

\* faulty variant: the except clause swallows the error and returns the
\* not-found sentinel
StorageErrorAsNotFound(r) ==
    LET q == req[r] IN
    /\ AtStorageCall(r)
    /\ Set(r, [Raise(q, "HTTP404") EXCEPT !.txn = TRUE, !.trace = Ev(q, "call_err")])
    /\ UNCHANGED <<db, started>>

\* the awaited call raises: storage.py logs and re-raises, create_new_item too;
\* health_check_db turns it into HTTPException(503).  A failed INSERT may have
\* consumed a sequence value
StorageError(r) ==
    LET q == req[r] IN
    /\ AtStorageCall(r)
    /\ Set(r, [Raise(q, IF q.kind = "health_db" THEN "HTTP503" ELSE "DBError")
                 EXCEPT !.txn = TRUE, !.trace = Ev(q, "call_err")])
    /\ seq' \in (IF q.kind = "create" /\ q.pc = "exec" THEN {seq, seq + 1} ELSE {seq})
    /\ UNCHANGED <<table, issued, started, fresh, deleted, life>>

\* the task is cancelled while it awaits the database: CancelledError is no
\* Exception, so no except clause of storage.py, main.py or get_db catches it;
\* only finally runs.  A rollback with no connection in use awaits nothing
Cancel(r) ==
    LET q == req[r] IN
    /\ AtStorageCall(r) \/ q.pc = "commit" \/ (q.pc = "rollback" /\ q.txn)
    /\ Set(r, [q EXCEPT !.pc = "close", !.raised = "CancelledError",
                        !.trace = Ev(q, IF q.pc = "commit" THEN "commit_cancelled"
                                        ELSE IF q.pc = "rollback" THEN "rollback_cancelled"
                                        ELSE "call")])
    /\ UNCHANGED <<db, started>>

\* ------------------------------------------------------ database.py get_db
\* position of the latest commit among the requests in the slots (0: none yet)
LastNth == CHOOSE n \in {req[o].nth : o \in Reqs} : \A o \in Reqs : req[o].nth <= n

\* after the yield: await session.commit()
Commit(r) ==
    LET q == req[r] IN
    /\ q.pc = "commit"
    /\ table' = Apply(q.write, table)
    /\ fresh' = IF q.kind = "create" THEN fresh \cup {q.item}
                ELSE IF q.kind \in {"update", "delete"}
                     THEN {x \in fresh : x.id # q.item_id}
                     ELSE fresh
    /\ deleted' = IF q.kind = "delete" THEN deleted \cup {q.item_id} ELSE deleted
    /\ Set(r, [q EXCEPT !.pc = "close", !.write = NoWrite, !.txn = FALSE,
                        !.trace = Ev(q, "commit_ok"),
                        !.nth = 1 + LastNth])
    /\ UNCHANGED <<seq, issued, started, life>>

\* commit raises: the except clause of get_db catches it
CommitError(r) ==
    LET q == req[r] IN
    /\ q.pc = "commit"
    /\ Set(r, [Raise(q, "DBError") EXCEPT !.trace = Ev(q, "commit_err")])
    /\ UNCHANGED <<db, started>>

\* except Exception: await session.rollback(); raise
Rollback(r) ==
    LET q == req[r] IN
    /\ q.pc = "rollback"
    /\ Set(r, [q EXCEPT !.pc = "close", !.write = NoWrite, !.txn = FALSE,
                        !.raised = q.err, !.trace = Ev(q, "rollback_ok")])
    /\ UNCHANGED <<db, started>>

\* rollback itself raises (only when a connection is in use): its exception
\* replaces the one being handled; finally still runs
RollbackError(r) ==
    LET q == req[r] IN
    /\ q.pc = "rollback" /\ q.txn
    /\ Set(r, [q EXCEPT !.pc = "close", !.raised = "RollbackError",
                        !.trace = Ev(q, "rollback_err")])
    /\ UNCHANGED <<db, started>>

SuccessStatus(kind) ==
    IF kind = "create" THEN 201 ELSE IF kind = "delete" THEN 204 ELSE 200

\* what the client gets for the exception that left the request (0: no response)
StatusOf(kind, raised) ==
    IF raised = "none" THEN SuccessStatus(kind)
    ELSE IF raised = "RequestValidationError" THEN 422
    ELSE IF raised = "HTTP404" THEN 404
    ELSE IF raised = "HTTP503" THEN 503
    ELSE IF raised = "CancelledError" THEN 0
    ELSE 500

\* finally: await session.close(): the transaction still open is discarded
Close(r) ==
    LET q == req[r] IN
    /\ q.pc = "close"
    /\ Set(r, [q EXCEPT !.pc = "done", !.write = NoWrite, !.txn = FALSE,
                        !.status = StatusOf(q.kind, q.raised),
                        !.trace = Ev(q, "close")])
    /\ UNCHANGED <<db, started>>

\* ------------------------------------------------------ main.py log_requests
\* the middleware logs the response (or the error) and the request is over
Finish(r) ==
    /\ req[r].pc = "done"
    /\ Set(r, IdleReq)
    /\ UNCHANGED <<db, started>>

\* ------------------------------------------------------ main.py lifespan
\* faulty variant: the except clause of lifespan does not re-raise, the
\* application starts without the schema
InitDbFailedIgnored ==
    /\ life.phase = "starting"
    /\ life' = [life EXCEPT !.phase = "serving"]
    /\ UNCHANGED <<table, seq, req, started, issued, fresh, deleted>>

\* await init_db() returned: the tables exist; lifespan reaches its yield
InitDbOk ==
    /\ life.phase = "starting"
    /\ life' = Serving
    /\ UNCHANGED <<table, seq, req, started, issued, fresh, deleted>>

\* init_db raised: init_db and lifespan log and re-raise, startup fails
InitDbFailed ==
    /\ life.phase = "starting"
    /\ life' = [life EXCEPT !.phase = "aborted"]
    /\ UNCHANGED <<table, seq, req, started, issued, fresh, deleted>>

\* shutdown begins: no new request is accepted, those in flight run to their end
StopAccepting ==
    /\ life.phase = "serving"
    /\ life' = [life EXCEPT !.phase = "stopping"]
    /\ UNCHANGED <<table, seq, req, started, issued, fresh, deleted>>

\* lifespan resumes after its yield once the requests have ended:
\* await close_db(), which is engine.dispose()
CloseDb ==
    /\ life.phase = "stopping" /\ Alone
    /\ life' = [life EXCEPT !.phase = "stopped", !.disposed = life.disposed + 1]
    /\ UNCHANGED <<table, seq, req, started, issued, fresh, deleted>>

\* ------------------------------------------------------ specifications
Step(r) ==
    \/ HealthDbQuery(r) \/ ListQuery(r) \/ GetQuery(r)
    \/ CreateFlush(r) \/ CreateRefresh(r)
    \/ UpdateQuery(r) \/ UpdateFlush(r) \/ UpdateRefresh(r)
    \/ DeleteQuery(r) \/ DeleteExec(r)
    \/ StorageError(r) \/ Cancel(r)
    \/ Commit(r) \/ CommitError(r) \/ Rollback(r) \/ RollbackError(r) \/ Close(r)
    \/ Finish(r)

Next ==
    \/ InitDbOk \/ InitDbFailed
    \/ \E r \in Reqs :
           \/ Health(r) \/ StartHealthDb(r) \/ StartList(r) \/ StartGet(r)
           \/ StartCreate(r) \/ StartUpdate(r) \/ StartDelete(r)
           \/ Step(r)

\* requests of every kind, served one after the other, from an empty table
Spec == Init /\ [][Next]_vars

\* one GET /items request against a table that earlier requests left behind
StoredTables ==
    {T \in SUBSET {Row(i, n, None) : i \in 1..MaxRows, n \in StoredNames} :
        \A x, y \in T : x.id = y.id => x = y}

InitList ==
    /\ table \in StoredTables
    /\ seq = MaxRows
    /\ issued = [i \in 1..MaxRows |-> i]
    /\ req = [r \in Reqs |-> IdleReq]
    /\ started = MaxRequests - 1
    /\ fresh = {}
    /\ deleted = (1..MaxRows) \ IdsOf(table)
    /\ life = Serving

NextList ==
    \E r \in Reqs :
        \/ StartListAny(r) \/ ListQuery(r)
        \/ Commit(r) \/ Rollback(r) \/ Close(r) \/ Finish(r)

ListSpec == InitList /\ [][NextList]_vars

\* two requests at a time: updates and deletes of one stored row, each in its
\* own session and transaction (READ COMMITTED), in any interleaving
ConcIds == {IdMin}

ConcBodies == {MkBody(n, Unset, 0) : n \in StoredNames}

CanStartConc(r) == life.phase = "serving" /\ req[r].pc = "idle" /\ started < MaxRequests

StartUpdateConc(r) ==
    \E item_id \in ConcIds, body \in ConcBodies :
        /\ CanStartConc(r)
        /\ started' = started + 1
        /\ Set(r, Enter("update", [IdleReq EXCEPT !.item_id = item_id, !.body = body],
                        ItemIdValid(item_id) /\ ItemUpdateValid(body)))
        /\ UNCHANGED db

StartDeleteConc(r) ==
    \E item_id \in ConcIds :
        /\ CanStartConc(r)
        /\ started' = started + 1
        /\ Set(r, Enter("delete", [IdleReq EXCEPT !.item_id = item_id], ItemIdValid(item_id)))
        /\ UNCHANGED db

InitConc ==
    /\ table = {Row(i, Lit(<<"a">>), None) : i \in ConcIds}
    /\ seq = IdMin
    /\ issued = <<IdMin>>
    /\ req = [r \in Reqs |-> IdleReq]
    /\ started = 0
    /\ fresh = {}
    /\ deleted = {}
    /\ life = Serving

NextConc ==
    \E r \in Reqs :
        \/ StartUpdateConc(r) \/ StartDeleteConc(r)
        \/ UpdateQuery(r) \/ UpdateFlush(r) \/ UpdateRefresh(r)
        \/ DeleteQuery(r) \/ DeleteExec(r)
        \/ Commit(r) \/ Rollback(r) \/ Close(r) \/ Finish(r)

ConcSpec == InitConc /\ [][NextConc]_vars

\* the whole life of the process, from import to the end of lifespan, with
\* health and get requests while it serves
NextLife ==
    \/ InitDbOk \/ InitDbFailed \/ StopAccepting \/ CloseDb
    \/ \E r \in Reqs :
           \/ Health(r) \/ StartHealthDb(r) \/ HealthDbQuery(r)
           \/ StartGet(r) \/ GetQuery(r)
           \/ StorageError(r) \/ Cancel(r)
           \/ Commit(r) \/ CommitError(r) \/ Rollback(r) \/ RollbackError(r)
           \/ Close(r) \/ Finish(r)

LifeSpec == Init /\ [][NextLife]_vars

\* ------------------------------------------------------ properties
UsesGetDb(q) == q.kind \notin {"none", "health"}

Has(t, e) == \E i \in 1..Len(t) : t[i] = e

CommitEvents == {"commit_ok", "commit_err", "commit_cancelled"}

RollbackEvents == {"rollback_ok", "rollback_err", "rollback_cancelled"}

CommitAttempted(t) == \E i \in 1..Len(t) : t[i] \in CommitEvents

RollbackCalled(t) == \E i \in 1..Len(t) : t[i] \in RollbackEvents

Cancelled(t) == Has(t, "commit_cancelled") \/ Has(t, "rollback_cancelled")

\* close is the last event of the request and happens once
ClosedLast(t) ==
    /\ Len(t) > 0 /\ t[Len(t)] = "close"
    /\ \A i \in 1..(Len(t) - 1) : t[i] # "close"

\* the parts of the unit-of-work contract other than which error is re-raised
UnitOfWorkOrder(q) ==
    /\ q.ret => CommitAttempted(q.trace)
    /\ CommitAttempted(q.trace) => q.ret
    /\ (q.err # "none" /\ q.raised # "CancelledError") => RollbackCalled(q.trace)
    /\ ClosedLast(q.trace)
    /\ ~(Has(q.trace, "commit_ok") /\ RollbackCalled(q.trace))
    /\ Has(q.trace, "commit_ok") <=> (q.raised = "none")

\* C1 (weaker, holds): commit on normal completion, rollback on any exception,
\* close last on every path, never a successful commit together with a rollback
UnitOfWorkOrderHolds ==
    \A r \in Reqs : (req[r].pc = "done" /\ UsesGetDb(req[r])) => UnitOfWorkOrder(req[r])

\* C1: every get_db request commits on normal completion; on any error leaving
\* the scope (commit's own included) it rolls back and re-raises that same error;
\* the session is closed last on every exit path; no request has both a
\* successful commit and a rollback; nothing is called on a closed session
C1_UnitOfWork ==
    \A r \in Reqs :
        (req[r].pc = "done" /\ UsesGetDb(req[r])) =>
            /\ UnitOfWorkOrder(req[r])
            /\ (req[r].err # "none" /\ req[r].raised # "CancelledError")
                   => req[r].raised = req[r].err

\* ------------------------------------------------------ claims C2..C10
Done(q) == q.pc = "done"

\* the request met a failure of the environment: a storage call raised or the
\* task was cancelled
StorageFailed(q) == q.raised \in {"DBError", "RollbackError", "CancelledError"}

NoDup(t) == \A i, j \in 1..Len(t) : i # j => t[i] # t[j]

Range(t) == {t[i] : i \in 1..Len(t)}

BodyDesc(body) == IF "description" \in DOMAIN body THEN body["description"] ELSE None

\* C2: every id an INSERT returns is positive and was never returned before, also
\* after deletes and rolled-back creates; a created item's id is not the id of a
\* stored or deleted item; an update leaves the set of stored ids as it was
C2_IdsNeverReused ==
    /\ NoDup(issued)
    /\ \A i \in 1..Len(issued) : issued[i] >= 1
    /\ IdsOf(table) \subseteq Range(issued)
    /\ \A x, y \in table : x.id = y.id => x = y
    /\ \A r \in Reqs :
        LET q == req[r] IN
        /\ (q.kind = "create" /\ q.item # NoRow) =>
               /\ q.item.id >= 1
               /\ q.item.id \notin IdsOf(q.snap)
               /\ q.item.id \notin deleted
               /\ q.item.id = issued[Len(issued)]
        /\ (q.kind = "update" /\ Done(q)) =>
               /\ IdsOf(table) = IdsOf(q.snap)
               /\ q.status = 200 => q.item.id = q.item_id

\* C2 witness: a create answered 201 after some delete has committed
C2_Witness ==
    \E r \in Reqs :
        /\ req[r].kind = "create" /\ Done(req[r]) /\ req[r].status = 201
        /\ deleted # {}

\* the creation inputs the claim calls valid
ValidCreateInput(body) ==
    /\ "name" \in DOMAIN body
    /\ body["name"] # None
    /\ StrLen(body["name"]) \in 1..255
    /\ BodyDesc(body) = None \/ StrLen(BodyDesc(body)) <= 1000

\* C3: a create of a valid input that is not hit by a storage failure is
\* answered 201 with the input's name and description under a positive id; a
\* later get of that id, with no update or delete of it in between, returns
\* that same item with 200
C3_CreateThenGet ==
    \A r \in Reqs :
        LET q == req[r] IN
        /\ (q.kind = "create" /\ Done(q) /\ ValidCreateInput(q.body) /\ ~StorageFailed(q)) =>
               q.status = 201
        /\ (q.kind = "create" /\ Done(q) /\ q.status = 201) =>
               /\ q.item \in fresh
               /\ q.item = Row(q.item.id, q.body["name"], BodyDesc(q.body))
        /\ (q.kind = "get" /\ Done(q) /\ q.item_id \in IdsOf(fresh) /\ ~StorageFailed(q)) =>
               /\ q.status = 200
               /\ q.item \in fresh
               /\ q.item.id = q.item_id

\* C3 witness: a get answered 200 with an item a create returned, description set
C3_Witness ==
    \E r \in Reqs :
        /\ req[r].kind = "get" /\ Done(req[r]) /\ req[r].status = 200
        /\ req[r].item \in fresh
        /\ req[r].item.description # None

\* C4: a delete answered 204 removed exactly the row of its id; a delete of an
\* absent id is answered 404 and leaves the table as it was; a get of an id
\* whose delete committed is answered 404
C4_Delete ==
    \A r \in Reqs :
        LET q == req[r] IN
        /\ (q.kind = "delete" /\ Done(q) /\ q.item_id >= 1) =>
               /\ q.status = 204 =>
                      /\ q.item_id \in IdsOf(q.snap)
                      /\ table = {x \in q.snap : x.id # q.item_id}
               /\ q.status # 204 => table = q.snap
               /\ ~StorageFailed(q) =>
                      q.status = (IF q.item_id \in IdsOf(q.snap) THEN 204 ELSE 404)
        /\ (q.kind = "get" /\ Done(q) /\ q.item_id \in deleted /\ ~StorageFailed(q)) =>
               q.status = 404

\* C4 witness: a delete answered 204 that left another row in the table
C4_Witness ==
    \E r \in Reqs :
        /\ req[r].kind = "delete" /\ Done(req[r]) /\ req[r].status = 204
        /\ table # {}

\* C4 witness of the follow-up: a get of a deleted id answered 404
C4_GetAfterDelete ==
    \E r \in Reqs :
        /\ req[r].kind = "get" /\ Done(req[r]) /\ req[r].status = 404
        /\ req[r].item_id \in deleted

PresentFields(body) == (DOMAIN body) \cap {"name", "description"}

\* C5: an update answered 200 leaves the table as it was except for the row of
\* its id, whose fields present in the input have the input's values and whose
\* other fields and id are as before, and returns that row; with an empty input
\* that is not hit by a storage failure the table is unchanged and the current
\* row is returned with 200
C5_UpdateFrame ==
    \A r \in Reqs :
        LET q == req[r]
            old == RowById(q.snap, q.item_id)
            new == RowById(table, q.item_id)
        IN
        /\ (q.kind = "update" /\ Done(q) /\ q.status = 200) =>
               /\ old # NoRow /\ new # NoRow
               /\ table \ {new} = q.snap \ {old}
               /\ new.id = old.id
               /\ \A f \in {"name", "description"} :
                      new[f] = (IF f \in PresentFields(q.body) THEN q.body[f] ELSE old[f])
               /\ q.item = new
        /\ (q.kind = "update" /\ Done(q) /\ q.item_id >= 1 /\ old # NoRow
                /\ PresentFields(q.body) = {} /\ ~StorageFailed(q)) =>
               /\ q.status = 200
               /\ table = q.snap
               /\ q.item = old

\* C5 witness: an update of the name alone, answered 200, on a row with a description
C5_Witness ==
    \E r \in Reqs :
        /\ req[r].kind = "update" /\ Done(req[r]) /\ req[r].status = 200
        /\ PresentFields(req[r].body) = {"name"}
        /\ RowById(req[r].snap, req[r].item_id).description # None
        /\ RowById(req[r].snap, req[r].item_id).name # req[r].body["name"]

\* C5 witness of the empty input: answered 200 on an existing row
C5_EmptyWitness ==
    \E r \in Reqs :
        /\ req[r].kind = "update" /\ Done(req[r]) /\ req[r].status = 200
        /\ PresentFields(req[r].body) = {}

\* the update bodies the claim calls valid
ValidUpdateInput(body) ==
    /\ ("name" \in DOMAIN body /\ body["name"] # None) => StrLen(body["name"]) \in 1..255
    /\ ("description" \in DOMAIN body /\ body["description"] # None) =>
           StrLen(body["description"]) <= 1000

\* C6: an update of an id with no stored row leaves the table as it was, is
\* never answered 200, and is answered 404 unless a storage failure hits it
C6_UpdateMissing ==
    \A r \in Reqs :
        LET q == req[r] IN
        (q.kind = "update" /\ Done(q) /\ q.item_id >= 1 /\ ValidUpdateInput(q.body)
             /\ q.item_id \notin IdsOf(q.snap)) =>
            /\ table = q.snap
            /\ q.status # 200
            /\ ~StorageFailed(q) => q.status = 404

\* C6 witness: an update carrying both fields for an absent id, answered 404
C6_Witness ==
    \E r \in Reqs :
        /\ req[r].kind = "update" /\ Done(req[r]) /\ req[r].status = 404
        /\ PresentFields(req[r].body) = {"name", "description"}
        /\ req[r].snap # {}

\* C7: the sequence get_all_items returns holds every stored row exactly once,
\* in strictly ascending id order; it is empty for an empty table; a valid list
\* request not hit by a storage failure is answered 200
C7_ListAll ==
    \A r \in Reqs :
        LET q == req[r] IN
        /\ (q.kind = "list" /\ q.ret) =>
               /\ Range(q.all) = table
               /\ Len(q.all) = Cardinality(table)
               /\ \A i, j \in 1..Len(q.all) : i < j => q.all[i].id < q.all[j].id
               /\ table = {} => q.all = <<>>
        /\ (q.kind = "list" /\ Done(q) /\ q.limit \in 1..100 /\ q.offset >= 0
                /\ ~StorageFailed(q)) => q.status = 200

\* C7 witness: a list answered 200 over at least two stored rows
C7_Witness ==
    \E r \in Reqs :
        /\ req[r].kind = "list" /\ Done(req[r]) /\ req[r].status = 200
        /\ Len(req[r].all) >= 2

\* C7 witness of the empty table: a list answered 200 with nothing stored
C7_EmptyWitness ==
    \E r \in Reqs :
        /\ req[r].kind = "list" /\ Done(req[r]) /\ req[r].status = 200
        /\ table = {} /\ req[r].all = <<>>

\* two characters equal up to case
CaseEq(c, d) == c = d \/ {c, d} = {"a", "A"} \/ {c, d} = {"b", "B"}

\* sub occurs in t at some position, compared character by character up to case
ContainsNoCase(sub, t) ==
    \E i \in 0..(Len(t) - Len(sub)) : \A k \in 1..Len(sub) : CaseEq(t[i + k], sub[k])

Blank(name) == name = None \/ \A i \in 1..Len(Text(name)) : Text(name)[i] = " "

\* C8: with a non-blank name the filtered sequence is the listed items whose
\* name contains the filter text up to case, in the listed order; with no name
\* or a blank one it is the whole list
C8_NameFilter ==
    \A r \in Reqs :
        LET q == req[r] IN
        (q.kind = "list" /\ q.ret) =>
            q.items = (IF Blank(q.name) THEN q.all
                       ELSE SelectSeq(q.all,
                                LAMBDA it : ContainsNoCase(Text(q.name), Text(it.name))))

\* C8 witness: a filter that keeps an item whose name differs from it in case and
\* drops another
C8_Witness ==
    \E r \in Reqs :
        LET q == req[r] IN
        /\ q.kind = "list" /\ Done(q) /\ q.status = 200 /\ ~Blank(q.name)
        /\ Len(q.items) >= 1 /\ Len(q.items) < Len(q.all)
        /\ \E i \in 1..Len(q.items) : ~PyContains(Text(q.name), Text(q.items[i].name))

\* the pages at offsets from, from + limit, ... of items, one after the other
RECURSIVE Pages(_, _, _)
Pages(items, limit, from) ==
    IF from >= Len(items) THEN <<>>
    ELSE Paginate(items, from, limit) \o Pages(items, limit, from + limit)

\* C9: the page is the elements offset+1 .. offset+limit of the filtered
\* sequence, as far as they exist: at most limit items, none when offset is at
\* or beyond its length; the pages at offsets 0, limit, 2*limit, ... put one
\* after the other are the filtered sequence
C9_Pagination ==
    \A r \in Reqs :
        LET q == req[r]
            n == Len(q.items)
        IN
        (q.kind = "list" /\ q.ret) =>
            /\ q.limit \in 1..100 /\ q.offset >= 0
            /\ Len(q.page) = Max2(0, Min2(q.limit, n - q.offset))
            /\ \A k \in 1..Len(q.page) : q.page[k] = q.items[q.offset + k]
            /\ Len(q.page) <= q.limit
            /\ q.offset >= n => q.page = <<>>
            /\ Pages(q.items, q.limit, 0) = q.items

\* C9 witness: a page cut short at both ends of a filtered sequence that is
\* shorter than the list
C9_Witness ==
    \E r \in Reqs :
        LET q == req[r] IN
        /\ q.kind = "list" /\ Done(q) /\ q.status = 200
        /\ Len(q.items) < Len(q.all)
        /\ q.offset >= 1 /\ Len(q.page) = q.limit
        /\ q.offset + q.limit < Len(q.items) + 1

\* the inputs the claim calls invalid
InvalidInput(q) ==
    \/ q.kind \in {"get", "update", "delete"} /\ q.item_id <= 0
    \/ q.kind = "list" /\ (q.limit < 1 \/ q.limit > 100 \/ q.offset < 0)
    \/ q.kind = "create" /\ ~ValidCreateInput(q.body)
    \/ q.kind = "update" /\ ~ValidUpdateInput(q.body)

StorageEvents == {"call", "call_err"} \cup CommitEvents

\* C10: a request with an invalid input is answered 422; it makes no storage
\* call and no commit, and the table stays as it was
C10_Validation ==
    \A r \in Reqs :
        LET q == req[r] IN
        /\ InvalidInput(q) =>
               /\ \A i \in 1..Len(q.trace) : q.trace[i] \notin StorageEvents
               /\ table = q.snap
               /\ ~q.ret
        /\ (InvalidInput(q) /\ Done(q)) => q.status = 422

\* C10 witness: an update with a valid id and an over-long name, answered 422
C10_Witness ==
    \E r \in Reqs :
        LET q == req[r] IN
        /\ q.kind = "update" /\ Done(q) /\ q.status = 422
        /\ q.item_id \in IdsOf(table)
        /\ "name" \in DOMAIN q.body /\ StrLen(q.body["name"]) = 256

\* C1 witness: a request whose rollback raised while another error was handled
C1_RollbackRaised ==
    \E r \in Reqs :
        /\ Done(req[r]) /\ req[r].err = "HTTP404" /\ req[r].raised = "RollbackError"

\* C11: every committed row has a name that is not null and has 1..255
\* characters, whatever validated creates and updates were served, an update
\* with name explicitly null included
C11_NameNeverNull ==
    \A x \in table : x.name # None /\ StrLen(x.name) >= 1 /\ StrLen(x.name) <= 255

\* C11 witness: an update of a stored row whose body carries name null has
\* passed validation and ended; the row is still stored
C11_Witness ==
    \E r \in Reqs :
        LET q == req[r] IN
        /\ q.kind = "update" /\ Done(q)
        /\ "name" \in DOMAIN q.body /\ q.body["name"] = None
        /\ q.raised = "IntegrityError"
        /\ q.item_id \in IdsOf(table)

\* the exceptions a storage call of the five item operations raises
StorageErrors == {"DBError", "StaleDataError", "IntegrityError", "InvalidRequestError"}

ItemKinds == {"list", "get", "create", "update", "delete"}

Count(t, S) == Cardinality({i \in 1..Len(t) : t[i] \in S})

\* a storage call of the request has raised
StorageCallRaised(q) ==
    \/ Has(q.trace, "call_err") \/ Has(q.trace, "commit_err")
    \/ q.err \in StorageErrors

HealthDbStorageFailed(q) ==
    q.err # "none" \/ Has(q.trace, "commit_err") \/ Has(q.trace, "rollback_err")

\* C13: a finished GET /health/db is answered 200 when no storage call of the
\* request raised, and 503 when one did (no answer when the task was
\* cancelled); never 200 after a storage error and never another status
C13_HealthDb ==
    \A r \in Reqs :
        LET q == req[r] IN
        (q.kind = "health_db" /\ Done(q) /\ q.raised # "CancelledError") =>
            q.status = (IF HealthDbStorageFailed(q) THEN 503 ELSE 200)

\* C13 (weaker, holds): 200 when the query and the commit succeeded, 503 when
\* the query raised and the rollback succeeded, never 200 after a storage error
C13_HealthDbHandler ==
    \A r \in Reqs :
        LET q == req[r] IN
        (q.kind = "health_db" /\ Done(q) /\ q.raised # "CancelledError") =>
            /\ ~HealthDbStorageFailed(q) => q.status = 200
            /\ (q.err = "HTTP503" /\ Has(q.trace, "rollback_ok")) => q.status = 503
            /\ HealthDbStorageFailed(q) => q.status \in {500, 503}

\* C13 witness: SELECT 1 succeeded, the handler returned the healthy payload,
\* the commit in get_db raised and the request ended with 500
C13_CommitFailed ==
    \E r \in Reqs :
        LET q == req[r] IN
        /\ q.kind = "health_db" /\ Done(q) /\ q.ret
        /\ Has(q.trace, "commit_err") /\ q.status = 500

\* some request slot holds a request (its unit-of-work session, if any, exists)
InFlight == \E r \in Reqs : req[r].pc # "idle"

\* the step accepts a request or moves one on
ServesRequest == started' # started \/ (req' # req /\ \E r \in Reqs : req'[r].pc # "idle")

\* one step of the process, as the lifecycle orders it
LifecycleStep ==
    /\ ServesRequest => (life.schema /\ life.phase \in {"serving", "stopping"})
    /\ started' # started => life.phase = "serving"
    /\ life.phase = "aborted" => (life' = life /\ started' = 0 /\ ~InFlight')
    /\ life'.disposed # life.disposed =>
           /\ life.disposed = 0 /\ life'.disposed = 1
           /\ life.phase = "stopping" /\ ~InFlight
    /\ life.disposed > 0 => (started' = started /\ req' = req /\ life' = life)
    /\ life'.phase = "stopped" <=> life'.disposed = 1

\* C14: no request is served before init_db has returned; after init_db has
\* failed nothing is ever served; engine.dispose() runs once, when no request
\* is accepted any more and none is in flight; afterwards no request (and so no
\* session) is started
C14_Lifecycle == [][LifecycleStep]_vars

\* C14 witness: requests were served, then the process stopped accepting, the
\* requests ended and the pool was disposed
C14_Witness ==
    /\ life.phase = "stopped" /\ life.disposed = 1
    /\ started >= 2 /\ ~InFlight

\* C14 witness of the failed startup: init_db raised, nothing was served
C14_AbortedWitness == life.phase = "aborted" /\ started = 0 /\ ~InFlight

\* both requests have ended and were answered with the success status
BothSucceeded(a, b, kind) ==
    /\ a # b
    /\ req[a].kind = kind /\ req[b].kind = kind
    /\ req[a].item_id = req[b].item_id
    /\ Done(req[a]) /\ Done(req[b])
    /\ req[a].status = SuccessStatus(kind) /\ req[b].status = SuccessStatus(kind)

\* C15: when two updates of the same id that both carry a name have both
\* succeeded, the stored name is the one carried by the update that committed
\* last
C15_LastCommitterWins ==
    \A a, b \in Reqs :
        (/\ BothSucceeded(a, b, "update")
         /\ "name" \in DOMAIN req[a].body /\ "name" \in DOMAIN req[b].body
         /\ req[a].nth > req[b].nth) =>
            RowById(table, req[a].item_id).name = req[a].body["name"]

\* C15 (weaker, holds): as C15 when the value of the last committer differs
\* from the one its SELECT had loaded, so that its flush sent an UPDATE
C15_LastWriterWins ==
    \A a, b \in Reqs :
        (/\ BothSucceeded(a, b, "update")
         /\ "name" \in DOMAIN req[a].body /\ "name" \in DOMAIN req[b].body
         /\ req[a].nth > req[b].nth
         /\ req[a].body["name"] # req[a].loaded.name) =>
            RowById(table, req[a].item_id).name = req[a].body["name"]

\* C15 witness: the update that committed last carried the name its SELECT had
\* loaded; the stored name is the other update's
C15_LostUpdate ==
    \E a, b \in Reqs :
        /\ BothSucceeded(a, b, "update")
        /\ req[a].nth > req[b].nth
        /\ req[a].body["name"] = req[a].loaded.name
        /\ req[b].body["name"] # req[a].body["name"]
        /\ RowById(table, req[a].item_id).name = req[b].body["name"]

\* both deletes found the id stored when they started
ExistedAtStart(a, b) ==
    /\ req[a].item_id \in IdsOf(req[a].snap)
    /\ req[b].item_id \in IdsOf(req[b].snap)

\* C16: of two finished deletes of the same id, stored when both started, one
\* was answered 204 and the other 404
C16_ExactlyOneDelete ==
    \A a, b \in Reqs :
        (/\ a # b
         /\ req[a].kind = "delete" /\ req[b].kind = "delete"
         /\ req[a].item_id = req[b].item_id
         /\ Done(req[a]) /\ Done(req[b])
         /\ ExistedAtStart(a, b)) =>
            {req[a].status, req[b].status} = {204, 404}

\* C16 witness: both deletes passed the existence check and both were
\* answered 204
C16_BothDeleted ==
    \E a, b \in Reqs :
        /\ BothSucceeded(a, b, "delete")
        /\ ExistedAtStart(a, b)
        /\ req[a].loaded # NoRow /\ req[b].loaded # NoRow
        /\ req[a].item_id \notin IdsOf(table)

\* C16 (weaker, holds): of two finished deletes of the same id, stored when
\* both started, at least one was answered 204, the one that committed first
\* removed the row, and the row is gone
C16_AtLeastOneDelete ==
    \A a, b \in Reqs :
        (/\ a # b
         /\ req[a].kind = "delete" /\ req[b].kind = "delete"
         /\ req[a].item_id = req[b].item_id
         /\ Done(req[a]) /\ Done(req[b])
         /\ ExistedAtStart(a, b)) =>
            /\ 204 \in {req[a].status, req[b].status}
            /\ {req[a].status, req[b].status} \subseteq {204, 404}
            /\ req[a].item_id \notin IdsOf(table)

====
